---- MODULE Spec2Model ----
(***************************************************************************)
(* Model of fieldfuncs/finite_slab.py: the analytic slab-field functions   *)
(* By_surface, By_arb and By_2d_approximation, the beam profiles g1d and   *)
(* box1d, and the closures built by get_f_amp and get_f_off.               *)
(*                                                                         *)
(* Numbers.  A Python/NumPy float is modelled by an exact real: a rational *)
(* part plus a rational combination of the transcendental values the code  *)
(* produces (atan of a rational, ln of a prime), extended with the IEEE    *)
(* values inf, -inf and nan and with the outcome "raise" of an operation   *)
(* that ends in an exception.  Rounding and signed zeros are not modelled. *)
(*                                                                         *)
(* Objects.  An argument is either a Python float ([t |-> "float"]) or a   *)
(* NumPy array ([t |-> "ndarray"]); the two differ where the source's      *)
(* operations differ: float division by zero raises, array division by     *)
(* zero yields inf or nan, and only an array has .astype.                  *)
(***************************************************************************)
EXTENDS Integers, Sequences, FiniteSets, TLC

VARIABLES
    call,       \* the module-level function call made last: [fn, args]
    out,        \* its outcome
    closure,    \* the closure built by get_f_amp / get_f_off: its cells
    positions,  \* the caller's array of scan positions
    pc,         \* where the closure call is: "idle", "loop", "returned", "raised"
    frame,      \* locals of the running (or just ended) call of f
    ret,        \* outcome of the closure call ended last
    history     \* the closure calls ended so far, in order: closure, x, center,
                \* height and outcome of each

vars == <<call, out, closure, positions, pc, frame, ret, history>>

----------------------------------------------------------------------------
(* Bounds of the input sets. *)

\* scan coordinates x, y, center are multiples of 1/4 in -MaxQ/4 .. MaxQ/4
MaxQ == 4
\* slab width w and depth d range over 1..MaxW and 1..MaxD
MaxW == 2
MaxD == 2
\* current density j (and current I) ranges over -1..MaxJ
MaxJ == 2
\* arrays passed to the functions have up to MaxLen elements
MaxLen == 2
\* closure calls made in one behaviour
MaxCalls == 3

----------------------------------------------------------------------------
(* Exact rationals <<n, d>>, d > 0, in lowest terms. *)

Abs(n) == IF n < 0 THEN -n ELSE n

RECURSIVE GCD(_, _)
GCD(a, b) == IF b = 0 THEN a ELSE GCD(b, a % b)

Rat(n, d) ==
    LET g == GCD(Abs(n), Abs(d))
        s == IF d < 0 THEN -1 ELSE 1
    IN  <<(s * n) \div g, (s * d) \div g>>

Zero == <<0, 1>>
One == <<1, 1>>
Int2Rat(n) == <<n, 1>>

RAdd(a, b) == Rat(a[1] * b[2] + b[1] * a[2], a[2] * b[2])
RNeg(a) == <<-a[1], a[2]>>
RSub(a, b) == RAdd(a, RNeg(b))
RMul(a, b) == Rat(a[1] * b[1], a[2] * b[2])
RDiv(a, b) == Rat(a[1] * b[2], a[2] * b[1])
RLe(a, b) == a[1] * b[2] <= b[1] * a[2]
RLt(a, b) == a[1] * b[2] < b[1] * a[2]
RAbs(a) == <<Abs(a[1]), a[2]>>
RSq(a) == RMul(a, a)

----------------------------------------------------------------------------
(* Rational linear combinations of transcendental atoms: a set of          *)
(* <<atom, coefficient>> pairs, one per atom, no zero coefficient.  The    *)
(* atoms are <<"atan", q>> for a rational q > 0, <<"atan", <<1, 0>>>> for  *)
(* atan(inf) = pi/2, and <<"ln", <<p, 1>>>> for a prime p: ln of a         *)
(* rational is expanded over the primes, so that the logarithm terms of    *)
(* equal reals have equal representations.                                 *)

Coef(S, a) ==
    IF \E p \in S : p[1] = a THEN (CHOOSE p \in S : p[1] = a)[2] ELSE Zero

LinAdd(S, T) ==
    LET atoms == {p[1] : p \in S \cup T}
        sum == {<<a, RAdd(Coef(S, a), Coef(T, a))>> : a \in atoms}
    IN  {p \in sum : p[2] # Zero}

LinScale(c, S) == IF c = Zero THEN {} ELSE {<<p[1], RMul(c, p[2])>> : p \in S}

RECURSIVE LeastDivisor(_, _)
LeastDivisor(n, p) ==
    IF p * p > n THEN n
    ELSE IF n % p = 0 THEN p
    ELSE LeastDivisor(n, p + 1)

RECURSIVE LnInt(_)
LnInt(n) ==
    IF n <= 1 THEN {}
    ELSE LET p == LeastDivisor(n, 2)
         IN  LinAdd({<<<<"ln", <<p, 1>>>>, One>>}, LnInt(n \div p))

LnRat(q) == LinAdd(LnInt(q[1]), LinScale(RNeg(One), LnInt(q[2])))

----------------------------------------------------------------------------
(* Float values. *)

Fin(q, sym) == [k |-> "fin", q |-> q, sym |-> sym, exc |-> ""]
Num(q) == Fin(q, {})
Inf == [k |-> "inf", q |-> Zero, sym |-> {}, exc |-> ""]
NInf == [k |-> "ninf", q |-> Zero, sym |-> {}, exc |-> ""]
NaN == [k |-> "nan", q |-> Zero, sym |-> {}, exc |-> ""]
Raise(e) == [k |-> "raise", q |-> Zero, sym |-> {}, exc |-> e]

IsRaise(v) == v.k = "raise"
IsFinite(v) == v.k = "fin"

\* c * v for a finite rational c
VScale(c, v) ==
    CASE v.k = "raise" -> v
      [] v.k = "nan" -> NaN
      [] v.k = "inf" ->
            IF c = Zero THEN NaN ELSE IF RLt(Zero, c) THEN Inf ELSE NInf
      [] v.k = "ninf" ->
            IF c = Zero THEN NaN ELSE IF RLt(Zero, c) THEN NInf ELSE Inf
      [] OTHER -> Fin(RMul(c, v.q), LinScale(c, v.sym))

VAdd(a, b) ==
    CASE a.k = "raise" -> a
      [] b.k = "raise" -> b
      [] a.k = "nan" \/ b.k = "nan" -> NaN
      [] a.k = "inf" -> IF b.k = "ninf" THEN NaN ELSE Inf
      [] a.k = "ninf" -> IF b.k = "inf" THEN NaN ELSE NInf
      [] b.k \in {"inf", "ninf"} -> b
      [] OTHER -> Fin(RAdd(a.q, b.q), LinAdd(a.sym, b.sym))

\* a / b for a value a without transcendental part and a finite rational b:
\* Python's float division raises on a zero divisor, NumPy's yields inf or nan
VDiv(a, b, t) ==
    CASE a.k = "raise" -> a
      [] b = Zero /\ t = "float" -> Raise("ZeroDivisionError")
      [] a.k = "nan" -> NaN
      [] b = Zero ->
            IF a.k = "inf" THEN Inf
            ELSE IF a.k = "ninf" THEN NInf
            ELSE IF a.q = Zero THEN NaN
            ELSE IF RLt(Zero, a.q) THEN Inf ELSE NInf
      [] a.k = "inf" -> IF RLt(Zero, b) THEN Inf ELSE NInf
      [] a.k = "ninf" -> IF RLt(Zero, b) THEN NInf ELSE Inf
      [] OTHER -> Num(RDiv(a.q, b))

\* np.arctan of a value without transcendental part
atan(v) ==
    CASE v.k = "raise" -> v
      [] v.k = "nan" -> NaN
      [] v.k = "inf" -> Fin(Zero, {<<<<"atan", <<1, 0>>>>, One>>})
      [] v.k = "ninf" -> Fin(Zero, {<<<<"atan", <<1, 0>>>>, RNeg(One)>>})
      [] v.q = Zero -> Num(Zero)
      [] RLt(Zero, v.q) -> Fin(Zero, {<<<<"atan", v.q>>, One>>})
      [] OTHER -> Fin(Zero, {<<<<"atan", RNeg(v.q)>>, RNeg(One)>>})

\* np.log of a value without transcendental part
ln(v) ==
    CASE v.k = "raise" -> v
      [] v.k = "nan" -> NaN
      [] v.k = "inf" -> Inf
      [] v.k = "ninf" -> NaN
      [] v.q = Zero -> NInf
      [] RLt(v.q, Zero) -> NaN
      [] OTHER -> Fin(Zero, LnRat(v.q))

----------------------------------------------------------------------------
(* The field functions at one evaluation point; t is the type of x. *)

mu0_over_4pi == <<1, 10000000>>

\* By_surface_at with the factor 2 of B = w + 2*x dropped
By_surface_at_slip(x, w, d, j, t) ==
    LET A == RSub(w, RMul(Int2Rat(2), x))
        B == RAdd(w, x)
        C == RMul(Int2Rat(2), d)
    IN  VScale(RMul(mu0_over_4pi, j),
               VAdd(VAdd(VScale(RNeg(A), atan(VDiv(Num(C), A, t))),
                         VScale(B, atan(VDiv(Num(C), B, t)))),
                    VScale(RDiv(C, Int2Rat(2)),
                           ln(VDiv(Num(RAdd(RSq(B), RSq(C))),
                                   RAdd(RSq(A), RSq(C)), t)))))

By_surface_at(x, w, d, j, t) ==
    LET A == RSub(w, RMul(Int2Rat(2), x))
        B == RAdd(w, RMul(Int2Rat(2), x))
        C == RMul(Int2Rat(2), d)
    IN  VScale(RMul(mu0_over_4pi, j),
               VAdd(VAdd(VScale(RNeg(A), atan(VDiv(Num(C), A, t))),
                         VScale(B, atan(VDiv(Num(C), B, t)))),
                    VScale(RDiv(C, Int2Rat(2)),
                           ln(VDiv(Num(RAdd(RSq(B), RSq(C))),
                                   RAdd(RSq(A), RSq(C)), t)))))

\* By_arb_at with j multiplying the first term of the bracket only
By_arb_at_slip(x, y, w, d, j, t) ==
    LET A == RSub(w, RMul(Int2Rat(2), x))
        B == RAdd(w, RMul(Int2Rat(2), x))
        C == RMul(Int2Rat(2), d)
        D == RSub(d, RMul(Int2Rat(2), y))
        E == RAdd(d, RMul(Int2Rat(2), y))
        AD == RAdd(RSq(A), RSq(D))
        AE == RAdd(RSq(A), RSq(E))
        BD == RAdd(RSq(B), RSq(D))
        BE == RAdd(RSq(B), RSq(E))
    IN  VScale(RNeg(mu0_over_4pi),
          VAdd(VAdd(VAdd(
            VScale(RMul(j, RNeg(A)),
                   VAdd(atan(VDiv(Num(D), A, t)), atan(VDiv(Num(E), A, t)))),
            VScale(B, VAdd(atan(VDiv(Num(E), B, t)), atan(VDiv(Num(D), B, t))))),
            VScale(y, ln(VDiv(VDiv(Num(RMul(BD, AE)), BE, t), AD, t)))),
            VScale(RDiv(d, Int2Rat(2)),
                   ln(VDiv(VDiv(Num(RMul(AE, AD)), BD, t), BE, t)))))

By_arb_at(x, y, w, d, j, t) ==
    LET A == RSub(w, RMul(Int2Rat(2), x))
        B == RAdd(w, RMul(Int2Rat(2), x))
        C == RMul(Int2Rat(2), d)
        D == RSub(d, RMul(Int2Rat(2), y))
        E == RAdd(d, RMul(Int2Rat(2), y))
        AD == RAdd(RSq(A), RSq(D))
        AE == RAdd(RSq(A), RSq(E))
        BD == RAdd(RSq(B), RSq(D))
        BE == RAdd(RSq(B), RSq(E))
    IN  VScale(RMul(RNeg(mu0_over_4pi), j),
          VAdd(VAdd(VAdd(
            VScale(RNeg(A), VAdd(atan(VDiv(Num(D), A, t)), atan(VDiv(Num(E), A, t)))),
            VScale(B, VAdd(atan(VDiv(Num(E), B, t)), atan(VDiv(Num(D), B, t))))),
            VScale(y, ln(VDiv(VDiv(Num(RMul(BD, AE)), BE, t), AD, t)))),
            VScale(RDiv(d, Int2Rat(2)),
                   ln(VDiv(VDiv(Num(RMul(AE, AD)), BD, t), BE, t)))))

By_2d_approximation_at(x, w, d, j, t) ==
    LET half == RDiv(w, Int2Rat(2))
    IN  VScale(RMul(RMul(Rat(2, 10000000), j), d),
               ln(VDiv(Num(RAdd(half, x)), RSub(half, x), t)))

----------------------------------------------------------------------------
(* Python objects: a float or an ndarray of floats, as a sequence of       *)
(* elements (one element for a float); an outcome is such an object or an  *)
(* exception.                                                              *)

Float(q) == [t |-> "float", a |-> <<q>>, exc |-> ""]
Array(s) == [t |-> "ndarray", a |-> s, exc |-> ""]
Exception(e) == [t |-> "raise", a |-> <<>>, exc |-> e]
None == [t |-> "None", a |-> <<>>, exc |-> ""]

Raised(o) == o.t = "raise"

\* the result of an element-wise expression over x, r being its value at each
\* element: for a float x the exception its evaluation raised, else a NumPy
\* scalar; for an array x an array (NumPy's array operations do not raise)
Elementwise(x, r) ==
    IF x.t = "float" /\ IsRaise(r[1]) THEN Exception(r[1].exc)
    ELSE [t |-> IF x.t = "float" THEN "float64" ELSE "ndarray", a |-> r, exc |-> ""]

By_surface(x, w, d, j) ==
    Elementwise(x, [k \in DOMAIN x.a |-> By_surface_at(x.a[k], w, d, j, x.t)])

By_arb(x, y, w, d, j) ==
    Elementwise(x, [k \in DOMAIN x.a |-> By_arb_at(x.a[k], y.a[k], w, d, j, x.t)])

By_2d_approximation(x, w, d, j) ==
    Elementwise(x, [k \in DOMAIN x.a |-> By_2d_approximation_at(x.a[k], w, d, j, x.t)])

----------------------------------------------------------------------------
(* Name resolution: the names the module binds at import, and the builtins *)
(* its functions use.  A name in neither raises NameError when looked up.  *)

ModuleGlobals ==
    {"np", "By_surface", "By_arb", "By_2d_approximation", "g1d", "box1d",
     "get_f_amp", "get_f_off"}

Builtins == {"abs", "int"}

Bound(name) == name \in ModuleGlobals \cup Builtins

\* g1d: s is computed, then the name twopi is looked up.  With twopi bound
\* the value is twopi**-0.5 / s * exp(-(x - x0)**2 / (2 s**2)), kept as the
\* atom <<"g1d", -(x - x0)**2 / (2 s**2)>> with coefficient 1 / s.
g1d(x, x0, beam_fwhm) ==
    LET s == RDiv(beam_fwhm, Rat(23548, 10000))
    IN  IF ~Bound("twopi") THEN Exception("NameError")
        ELSE Elementwise(x,
               [k \in DOMAIN x.a |->
                  Fin(Zero, {<<<<"g1d", RNeg(RDiv(RSq(RSub(x.a[k], x0)),
                                                 RMul(Int2Rat(2), RSq(s))))>>,
                              RDiv(One, s)>>})])

\* box1d: abs(x - x0) <= d is a Python bool for a float x, which has no
\* astype; for an array it is a boolean array, converted to 0 / 1
box1d(x, x0, d) ==
    IF x.t = "float" THEN Exception("AttributeError")
    ELSE Array([k \in DOMAIN x.a |->
                  IF RLe(RAbs(RSub(x.a[k], x0)), d) THEN 1 ELSE 0])

----------------------------------------------------------------------------
(* Input sets. *)

Quarters == {Rat(n, 4) : n \in -MaxQ..MaxQ}
Widths == {Int2Rat(n) : n \in 1..MaxW}
Depths == {Int2Rat(n) : n \in 1..MaxD}
Currents == {Int2Rat(n) : n \in -1..MaxJ}

\* an evenly spaced grid of n points from start, a quarter apart
Grid(start, n) == [k \in 1..n |-> RAdd(start, Rat(k - 1, 4))]

\* x as a float or as an array
Objects(S) ==
    {Float(q) : q \in S} \cup {Array(Grid(q, n)) : q \in S, n \in 1..MaxLen}

\* a float y broadcast to the type and shape of x
Like(x, q) == [t |-> x.t, a |-> [k \in DOMAIN x.a |-> q], exc |-> ""]

NoArgs ==
    [fn |-> "", x |-> None, y |-> None, w |-> Zero, d |-> Zero, j |-> Zero,
     x0 |-> Zero, width |-> Zero]

FieldCalls ==
    {[NoArgs EXCEPT !.fn = fn, !.x = x, !.w = w, !.d = d, !.j = j] :
        fn \in {"By_surface", "By_2d_approximation"}, x \in Objects(Quarters),
        w \in Widths, d \in Depths, j \in Currents}
    \cup
    {[NoArgs EXCEPT !.fn = "By_arb", !.x = x, !.y = Like(x, y), !.w = w,
                    !.d = d, !.j = j] :
        x \in Objects(Quarters), y \in Quarters,
        w \in Widths, d \in Depths, j \in Currents}

ProfileCalls ==
    {[NoArgs EXCEPT !.fn = "g1d", !.x = x, !.x0 = x0, !.width = fwhm] :
        x \in Objects(Quarters), x0 \in Quarters, fwhm \in Widths}
    \cup
    {[NoArgs EXCEPT !.fn = "box1d", !.x = x, !.x0 = x0, !.width = d] :
        x \in Objects(Quarters), x0 \in Quarters,
        d \in {q \in Quarters : RLe(Zero, q)}}

----------------------------------------------------------------------------
(* Calls of the module-level functions: the caller has chosen the function *)
(* and its arguments (call); the action runs it and records its outcome.   *)

Pending == [t |-> "pending", a |-> <<>>, exc |-> ""]

NoClosure == [kind |-> "none", fwhm |-> Zero, w |-> Zero, d |-> Zero, j |-> Zero]

NoFrame ==
    [x |-> <<>>, center |-> Zero, height |-> Zero, xrange |-> Zero,
     i |-> 0, xi |-> Zero, xx |-> <<>>, y |-> <<>>]

RunBy_surface ==
    /\ call.fn = "By_surface" /\ out = Pending
    /\ out' = By_surface(call.x, call.w, call.d, call.j)
    /\ UNCHANGED <<call, closure, positions, pc, frame, ret, history>>

RunBy_arb ==
    /\ call.fn = "By_arb" /\ out = Pending
    /\ out' = By_arb(call.x, call.y, call.w, call.d, call.j)
    /\ UNCHANGED <<call, closure, positions, pc, frame, ret, history>>

RunBy_2d_approximation ==
    /\ call.fn = "By_2d_approximation" /\ out = Pending
    /\ out' = By_2d_approximation(call.x, call.w, call.d, call.j)
    /\ UNCHANGED <<call, closure, positions, pc, frame, ret, history>>

Rung1d ==
    /\ call.fn = "g1d" /\ out = Pending
    /\ out' = g1d(call.x, call.x0, call.width)
    /\ UNCHANGED <<call, closure, positions, pc, frame, ret, history>>

Runbox1d ==
    /\ call.fn = "box1d" /\ out = Pending
    /\ out' = box1d(call.x, call.x0, call.width)
    /\ UNCHANGED <<call, closure, positions, pc, frame, ret, history>>

InitField ==
    /\ call \in FieldCalls \cup ProfileCalls
    /\ out = Pending
    /\ closure = NoClosure
    /\ positions = <<>>
    /\ pc = "idle"
    /\ frame = NoFrame
    /\ ret = None
    /\ history = <<>>

NextField ==
    \/ RunBy_surface
    \/ RunBy_arb
    \/ RunBy_2d_approximation
    \/ Rung1d
    \/ Runbox1d

SpecField == InitField /\ [][NextField]_vars

----------------------------------------------------------------------------
(* The fit-model closures. *)

\* nodes of the integration windows (np.linspace's num)
AmpNodes == 200
OffNodes == 500

\* linspace without its end point: num nodes of step (stop - start) / num
linspace_no_endpoint(start, stop, num) ==
    [k \in 1..num |->
        RAdd(start, RMul(Int2Rat(k - 1), RDiv(RSub(stop, start), Int2Rat(num))))]

linspace(start, stop, num) ==
    [k \in 1..num |->
        RAdd(start, RMul(Int2Rat(k - 1), RDiv(RSub(stop, start), Int2Rat(num - 1))))]

\* the cells a closure captures; j is computed once, by get_f_off
get_f_amp(fwhm, w) ==
    [kind |-> "amp", fwhm |-> fwhm, w |-> w, d |-> Zero, j |-> Zero]

get_f_off(fwhm, w, d, I) ==
    [kind |-> "off", fwhm |-> fwhm, w |-> w, d |-> d, j |-> RDiv(I, RMul(w, d))]

\* height * o for an array o of integers, element-wise
Times(height, o) ==
    IF Raised(o) THEN o
    ELSE [o EXCEPT !.a = [k \in DOMAIN o.a |-> RMul(height, Int2Rat(o.a[k]))]]

\* height * o for an array o of floats, element-wise
Scaled(height, o) ==
    IF Raised(o) THEN o
    ELSE [o EXCEPT !.a = [k \in DOMAIN o.a |-> VScale(height, o.a[k])]]

\* the value simps(...) appends for scan position xi when the names simps and
\* twopi are bound: the quadrature routine is not part of the module, and its
\* value is kept as the atom <<"simps", xi>>
Integral(xi) == Fin(Zero, {<<<<"simps", xi>>, One>>})

\* one pass of the loop body of get_f_amp.f, from frame fr with x[i + 1]:
\* the frame after it and the exception it ended in ("" when none)
f_amp_body(c, fr) ==
    LET xi == fr.x[fr.i + 1]
        xx == linspace(RSub(xi, fr.xrange), RAdd(xi, fr.xrange), AmpNodes)
        box == Times(fr.height, box1d(Array(xx), fr.center, RDiv(c.w, Int2Rat(2))))
        at == [fr EXCEPT !.xi = xi, !.xx = xx]
    IN  IF Raised(box) THEN [frame |-> at, exc |-> box.exc]
        ELSE IF ~Bound("simps") THEN [frame |-> at, exc |-> "NameError"]
        ELSE IF Raised(g1d(Array(xx), xi, c.fwhm))
             THEN [frame |-> at, exc |-> g1d(Array(xx), xi, c.fwhm).exc]
        ELSE [frame |-> [at EXCEPT !.i = fr.i + 1, !.y = Append(fr.y, Integral(xi))],
              exc |-> ""]

\* one pass of the loop body of get_f_off.f.  By is an expression over the
\* array xx - center, so its evaluation cannot raise; its elements are needed
\* only by the integrand, and are computed only where the integrand is.
f_off_body(c, fr) ==
    LET xi == fr.x[fr.i + 1]
        xx == linspace(RSub(xi, fr.xrange), RAdd(xi, fr.xrange), OffNodes)
        box == box1d(Array(xx), fr.center, RDiv(c.w, Int2Rat(2)))
        By == Scaled(fr.height,
                     By_surface(Array([k \in DOMAIN xx |-> RSub(xx[k], fr.center)]),
                                c.w, c.d, c.j))
        at == [fr EXCEPT !.xi = xi, !.xx = xx]
    IN  IF Raised(box) THEN [frame |-> at, exc |-> box.exc]
        ELSE IF ~Bound("simps") THEN [frame |-> at, exc |-> "NameError"]
        ELSE IF Raised(By) THEN [frame |-> at, exc |-> By.exc]
        ELSE IF Raised(g1d(Array(xx), xi, c.fwhm))
             THEN [frame |-> at, exc |-> g1d(Array(xx), xi, c.fwhm).exc]
        ELSE [frame |-> [at EXCEPT !.i = fr.i + 1, !.y = Append(fr.y, Integral(xi))],
              exc |-> ""]

f_body(c, fr) == IF c.kind = "amp" THEN f_amp_body(c, fr) ELSE f_off_body(c, fr)

\* xrange = 2 * fwhm; y = []
f_entry(c, x, center, height) ==
    [x |-> x, center |-> center, height |-> height,
     xrange |-> RMul(Int2Rat(2), c.fwhm), i |-> 0, xi |-> Zero, xx |-> <<>>,
     y |-> <<>>]

Ended(c, fr, outcome) ==
    [closure |-> c, x |-> fr.x, center |-> fr.center, height |-> fr.height,
     outcome |-> outcome]

----------------------------------------------------------------------------
(* Inputs of the fit models. *)

AmpParams == {<<Rat(1, 2), One>>, <<One, Int2Rat(2)>>}
OffParams == {<<Rat(1, 2), One, One, One>>, <<One, Int2Rat(2), One, Int2Rat(-2)>>}
\* <<center, height>> of a call
FitArgs == {<<Zero, One>>, <<Rat(1, 4), One>>, <<Zero, Int2Rat(2)>>}
PositionArrays ==
    {<<>>, <<Rat(-1, 2), Rat(1, 2)>>} \cup {Grid(Rat(-1, 4), n) : n \in 1..MaxLen}

----------------------------------------------------------------------------
(* Building a closure and calling it. *)

Build_f_amp ==
    /\ closure = NoClosure
    /\ \E p \in AmpParams : closure' = get_f_amp(p[1], p[2])
    /\ UNCHANGED <<call, out, positions, pc, frame, ret, history>>

Build_f_off ==
    /\ closure = NoClosure
    /\ \E p \in OffParams : closure' = get_f_off(p[1], p[2], p[3], p[4])
    /\ UNCHANGED <<call, out, positions, pc, frame, ret, history>>

\* Enter with f centring the positions in place (x -= center)
Enter_in_place ==
    /\ closure # NoClosure
    /\ pc # "loop"
    /\ Len(history) < MaxCalls
    /\ \E p \in FitArgs :
          /\ positions' = [k \in DOMAIN positions |-> RSub(positions[k], p[1])]
          /\ frame' = f_entry(closure, positions', p[1], p[2])
    /\ pc' = "loop"
    /\ UNCHANGED <<call, out, closure, ret, history>>

\* the caller calls f(positions, center, height)
Enter ==
    /\ closure # NoClosure
    /\ pc # "loop"
    /\ Len(history) < MaxCalls
    /\ \E p \in FitArgs : frame' = f_entry(closure, positions, p[1], p[2])
    /\ pc' = "loop"
    /\ UNCHANGED <<call, out, closure, positions, ret, history>>

\* for xi in x: one pass of the body, which appends or raises
Iterate ==
    /\ pc = "loop"
    /\ frame.i < Len(frame.x)
    /\ LET r == f_body(closure, frame)
       IN  /\ frame' = r.frame
           /\ IF r.exc = ""
              THEN UNCHANGED <<pc, ret, history>>
              ELSE /\ pc' = "raised"
                   /\ ret' = Exception(r.exc)
                   /\ history' = Append(history, Ended(closure, frame, Exception(r.exc)))
    /\ UNCHANGED <<call, out, closure, positions>>

\* return np.array(y)
Return ==
    /\ pc = "loop"
    /\ frame.i = Len(frame.x)
    /\ pc' = "returned"
    /\ ret' = Array(frame.y)
    /\ history' = Append(history, Ended(closure, frame, Array(frame.y)))
    /\ UNCHANGED <<call, out, closure, positions, frame>>

Init ==
    /\ call = NoArgs
    /\ out = None
    /\ closure = NoClosure
    /\ positions \in PositionArrays
    /\ pc = "idle"
    /\ frame = NoFrame
    /\ ret = None
    /\ history = <<>>

Next ==
    \/ Build_f_amp
    \/ Build_f_off
    \/ Enter
    \/ Iterate
    \/ Return

Spec == Init /\ [][Next]_vars

----------------------------------------------------------------------------
(* Properties. *)

Ran == out # Pending
Ended_f == pc \in {"returned", "raised"}

NegArg(x) == [x EXCEPT !.a = [k \in DOMAIN x.a |-> RNeg(x.a[k])]]

\* the field function fn at the arguments of call c, with current density j
Field(fn, c, j) ==
    CASE fn = "By_surface" -> By_surface(c.x, c.w, c.d, j)
      [] fn = "By_arb" -> By_arb(c.x, c.y, c.w, c.d, j)
      [] OTHER -> By_2d_approximation(c.x, c.w, c.d, j)

FieldFunctions == {"By_surface", "By_arb", "By_2d_approximation"}

\* C1: no public function ends in an exception on finite numeric input:
\* every call of a module-level function and every call of a closure returns
\* a value.
C1_NoFunctionRaises == ~Raised(out) /\ ~Raised(ret)

\* C2: the closure call ends by returning an array with one value per scan
\* position, the k-th being the integral for position x[k]; while the loop
\* runs, the list y holds one entry per position processed, in input order.
C2_OneValuePerPosition ==
    /\ pc = "loop" =>
          /\ Len(frame.y) = frame.i
          /\ \A k \in 1..frame.i : frame.y[k] = Integral(frame.x[k])
    /\ Ended_f =>
          /\ ret.t = "ndarray"
          /\ Len(ret.a) = Len(frame.x)
          /\ \A k \in 1..Len(frame.x) : ret.a[k] = Integral(frame.x[k])

\* C3: box1d(x, x0, half_width) is the integer 1 where |x - x0| <= half_width
\* and 0 elsewhere, with the shape of x, for a float x as for an array.
C3_BoxIndicator ==
    (Ran /\ call.fn = "box1d") =>
        /\ ~Raised(out)
        /\ DOMAIN out.a = DOMAIN call.x.a
        /\ \A k \in DOMAIN call.x.a :
              out.a[k] = IF RLe(RAbs(RSub(call.x.a[k], call.x0)), call.width)
                         THEN 1 ELSE 0

\* C4: on the top surface y = d/2, By_arb equals By_surface up to one overall
\* sign s, the same for every x: at the x of the call and at x = 0, w/4, -w/3.
C4_SurfaceUpToSign ==
    (Ran /\ call.fn = "By_arb"
         /\ \A k \in DOMAIN call.y.a : call.y.a[k] = RDiv(call.d, Int2Rat(2))) =>
        \E s \in {One, RNeg(One)} :
            /\ out = Scaled(s, By_surface(call.x, call.w, call.d, call.j))
            /\ \A x \in {Zero, RDiv(call.w, Int2Rat(4)), RDiv(call.w, Int2Rat(-3))} :
                  By_arb(Float(x), Float(RDiv(call.d, Int2Rat(2))),
                         call.w, call.d, call.j)
                  = Scaled(s, By_surface(Float(x), call.w, call.d, call.j))

\* C5: By_surface is odd in x: By_surface(x, w, d, j) = -By_surface(-x, w, d, j)
\* for every x, w > 0, d > 0 and j, and By_surface(0, w, d, j) = 0.  The two
\* sides are compared as outcomes: where one raises, so does the other.
C5_OddInX ==
    (Ran /\ call.fn = "By_surface") =>
        /\ out = Scaled(RNeg(One),
                        By_surface(NegArg(call.x), call.w, call.d, call.j))
        /\ \A k \in DOMAIN call.x.a : call.x.a[k] = Zero => out.a[k] = Num(Zero)

\* a By_surface call strictly inside the slab, off centre, with current, whose
\* result is a finite non-zero field
C5_Witness ==
    /\ Ran /\ call.fn = "By_surface" /\ call.x.t = "float"
    /\ call.x.a[1] = Rat(1, 4) /\ call.w = One /\ call.j # Zero
    /\ out.t = "float64" /\ IsFinite(out.a[1]) /\ out.a[1] # Num(Zero)

\* C6: each field function is linear in the current density: its value at 2j
\* is twice its value at j, for every x, y, w, d and j.
C6_LinearInJ ==
    (Ran /\ call.fn \in FieldFunctions) =>
        Field(call.fn, call, RMul(Int2Rat(2), call.j)) = Scaled(Int2Rat(2), out)

\* a By_arb call with current whose result is a finite non-zero field
C6_Witness ==
    /\ Ran /\ call.fn = "By_arb" /\ call.j # Zero
    /\ out.t = "ndarray" /\ Len(out.a) = 2
    /\ \A k \in DOMAIN out.a : IsFinite(out.a[k]) /\ out.a[k] # Num(Zero)

\* C7: at the slab edges x = w/2 and x = -w/2, By_surface called with floats
\* does not raise and returns the finite limiting value, in which the term
\* with the vanishing factor contributes 0 and the arctangent is pi/2.
C7_EdgeIsFinite ==
    (Ran /\ call.fn = "By_surface" /\ call.x.t = "float"
         /\ RAbs(call.x.a[1]) = RDiv(call.w, Int2Rat(2))) =>
        /\ ~Raised(out)
        /\ IsFinite(out.a[1])
        /\ out.a[1] = By_surface_at(call.x.a[1], call.w, call.d, call.j, "ndarray")

BuiltClosures ==
    {get_f_amp(p[1], p[2]) : p \in AmpParams}
    \cup {get_f_off(p[1], p[2], p[3], p[4]) : p \in OffParams}

Reverse(a) == [k \in DOMAIN a |-> a[Len(a) + 1 - k]]

\* the positions of the call form a grid symmetric about its center
SymmetricGrid ==
    /\ Len(frame.x) > 0
    /\ \A k \in DOMAIN frame.x :
          RSub(frame.x[k], frame.center)
          = RSub(frame.center, frame.x[Len(frame.x) + 1 - k])

\* C9: the amplitude model is symmetric about the strip centre: called on a
\* grid of positions symmetric about center it returns an array that equals
\* its own reversal, and every returned value is finite.
C9_SymmetricAboutCenter ==
    (Ended_f /\ closure.kind = "amp" /\ SymmetricGrid) =>
        /\ ret.t = "ndarray"
        /\ Len(ret.a) = Len(frame.x)
        /\ \A k \in DOMAIN ret.a : IsFinite(ret.a[k])
        /\ ret.a = Reverse(ret.a)

WindowBuilt == pc \in {"loop", "raised"} /\ frame.xx # <<>>

EvenlySpaced(xx) ==
    \A k \in 1..(Len(xx) - 2) :
        RSub(xx[k + 1], xx[k]) = RSub(xx[k + 2], xx[k + 1])

\* C10 as stated: every integration window has an even number of equal
\* sub-intervals.
C10_EvenSubintervals ==
    WindowBuilt => EvenlySpaced(frame.xx) /\ (Len(frame.xx) - 1) % 2 = 0

\* C10, amended: every integration window built for a scan position xi spans
\* [xi - 2 fwhm, xi + 2 fwhm] with evenly spaced nodes, 200 in the amplitude
\* model and 500 in the offset model: 199 and 499 equal sub-intervals, an odd
\* number.
C10_OddSubintervals ==
    WindowBuilt =>
        /\ Len(frame.xx) = IF closure.kind = "amp" THEN AmpNodes ELSE OffNodes
        /\ frame.xx[1] = RSub(frame.xi, RMul(Int2Rat(2), closure.fwhm))
        /\ frame.xx[Len(frame.xx)] = RAdd(frame.xi, RMul(Int2Rat(2), closure.fwhm))
        /\ EvenlySpaced(frame.xx)
        /\ (Len(frame.xx) - 1) % 2 = 1

\* the offset model has built the window of its first scan position
C10_Witness ==
    /\ WindowBuilt /\ closure.kind = "off"
    /\ Len(frame.xx) = OffNodes /\ frame.xi = frame.x[1]

====
